---- MODULE Spec2Model ----
(***************************************************************************)
(* pssh: the configuration ingestion pipeline (package ssh) and the        *)
(* interactive selection controller (package tui).                         *)
(*                                                                         *)
(* Strings are sequences of one-character strings, so that prefix tests,   *)
(* lower-casing, joining and fuzzy matching are computed character by      *)
(* character as the Go code computes them.                                 *)
(***************************************************************************)
EXTENDS Integers, Sequences, FiniteSets, TLC

VARIABLES
    fs,             \* the file system: resolved path -> file
    paths,          \* argument of LoadSSHConfig
    phase,          \* "load" | "loaded" | "failed" | "tui" | "quit" | "ssh" | "done"
    pidx,           \* LoadSSHConfig: index of the next path of `paths`
    stack,          \* loadSSHConfig: the recursion's activation records
    allSSHHosts,    \* LoadSSHConfig: blocks collected so far
    openFiles,      \* streams opened and not yet closed
    opens,          \* every os.Open call so far, in order, with its outcome
    loadErr,        \* error returned by LoadSSHConfig ("" = nil)
    loaded,         \* []*Host returned by LoadSSHConfig
    hosts,          \* Model.hosts
    filteredHosts,  \* Model.filteredHosts (indexes into hosts: pointer identity)
    textInput,      \* Model.textInput.Value()
    rows,           \* Model.table rows
    cursor,         \* Model.table cursor
    quitting,       \* Model.quitting
    width,          \* Model.width
    height,         \* Model.height
    selectedHost,   \* Model.selectedHost (index into hosts, 0 = nil)
    lastMsg,        \* the message the last Update call handled
    prevInput,      \* Model.textInput.Value() when that call began
    columns,        \* Model.table: the widths of its five columns
    tableHeight,    \* Model.table: its height
    inputWidth,     \* Model.textInput.Width
    loop,           \* RunTui: the --loop flag
    sshHost,        \* RunTui: what SelectHost returned (index into hosts, 0 = nil)
    ran,            \* the commands run so far, each with the error of cmd.Run
    runResult       \* the error RunTui returns

loadVars == <<fs, paths, pidx, stack, allSSHHosts, openFiles, opens, loadErr,
              loaded>>
layoutVars == <<columns, tableHeight, inputWidth>>
runVars  == <<loop, sshHost, ran, runResult>>
tuiVars  == <<hosts, filteredHosts, textInput, rows, cursor, quitting,
              width, height, selectedHost, lastMsg, prevInput, columns,
              tableHeight, inputWidth, loop, sshHost, ran, runResult>>
vars     == <<fs, paths, phase, pidx, stack, allSSHHosts, openFiles, opens,
              loadErr, loaded, hosts, filteredHosts, textInput, rows, cursor, quitting,
              width, height, selectedHost, lastMsg, prevInput, columns,
              tableHeight, inputWidth, loop, sshHost, ran, runResult>>

----------------------------------------------------------------------------
(* Bounds of the model *)

MaxBlocks == 2      \* explicit Host blocks per generated file
MaxQuery  == 2      \* characters typed into the search box
MaxDepth  == 3      \* nested loadSSHConfig activations

----------------------------------------------------------------------------
(* Strings *)

S(s) == [i \in 1..Len(s) |-> SubSeq(s, i, i)]

Min2(a, b) == IF a < b THEN a ELSE b
Max2(a, b) == IF a > b THEN a ELSE b

UpperLetters ==
    <<"A", "B", "C", "D", "E", "F", "G", "H", "I", "J", "K", "L",
      "M", "N", "O", "P", "Q", "R", "S", "T", "U", "V", "W", "X",
      "Y", "Z">>
LowerLetters ==
    <<"a", "b", "c", "d", "e", "f", "g", "h", "i", "j", "k", "l",
      "m", "n", "o", "p", "q", "r", "s", "t", "u", "v", "w", "x",
      "y", "z">>

\* unicode.ToLower on one character; "" stands for the zero rune
UpperSet == {UpperLetters[i] : i \in 1..26}
LowerSet == {LowerLetters[i] : i \in 1..26}
LowerOf  == [c \in UpperSet |-> LowerLetters[CHOOSE i \in 1..26 : UpperLetters[i] = c]]
LowerChar(c) == IF c \in UpperSet THEN LowerOf[c] ELSE c

\* strings.ToLower
ToLower(s) == [i \in 1..Len(s) |-> LowerChar(s[i])]

\* strings.EqualFold
EqualFold(a, b) == ToLower(a) = ToLower(b)

\* strings.HasPrefix
HasPrefix(s, p) == Len(s) >= Len(p) /\ SubSeq(s, 1, Len(p)) = p

\* strings.CutPrefix: the remainder after p (only used when HasPrefix holds)
CutPrefix(s, p) == SubSeq(s, Len(p) + 1, Len(s))

IsSpace(c) == c = " "

RECURSIVE TrimLeft(_)
TrimLeft(s) == IF s # <<>> /\ IsSpace(Head(s)) THEN TrimLeft(Tail(s)) ELSE s

RECURSIVE TrimRight(_)
TrimRight(s) ==
    IF s # <<>> /\ IsSpace(s[Len(s)]) THEN TrimRight(SubSeq(s, 1, Len(s) - 1)) ELSE s

\* strings.TrimSpace
TrimSpace(s) == TrimRight(TrimLeft(s))

\* n spaces
RECURSIVE Spaces(_)
Spaces(n) == IF n = 0 THEN <<>> ELSE <<" ">> \o Spaces(n - 1)

\* joinStrings: the elements separated by ", "
RECURSIVE joinStrings(_)
joinStrings(ss) ==
    IF ss = <<>> THEN <<>>
    ELSE IF Len(ss) = 1 THEN ss[1]
    ELSE ss[1] \o S(", ") \o joinStrings(Tail(ss))

\* fmt.Sprintf("(%s)", s)
Paren(s) == S("(") \o s \o S(")")

----------------------------------------------------------------------------
(* package ssh: the decoded configuration (ssh_config.Config) *)

\* ssh_config.KV
KV(key, value, lead) ==
    [type |-> "KV", Key |-> S(key), Value |-> S(value), leadingSpace |-> lead]

\* ssh_config.Include: the directive as decoded; leadingSpace is its indentation
IncludeNode(directive, lead) ==
    [type |-> "Include", directives |-> <<S(directive)>>, leadingSpace |-> lead]

\* ssh_config.Host: match patterns and directive nodes, in declaration order
Block(patterns, nodes) == [Patterns |-> patterns, Nodes |-> nodes]

\* Node.String(): the directive as it is written back, indentation included
NodeString(node) ==
    IF node.type = "KV"
    THEN Spaces(node.leadingSpace) \o node.Key \o S(" ") \o node.Value
    ELSE Spaces(node.leadingSpace) \o S("Include ")
             \o (IF node.directives = <<>> THEN <<>> ELSE node.directives[1])

Host(name, aliases, user, hostname, port, proxy) ==
    [Name |-> name, Aliases |-> aliases, User |-> user, Hostname |-> hostname,
     Port |-> port, ProxyCommand |-> proxy]

\* getOptVal: the value of the first KV whose key equals opt, ignoring case
RECURSIVE getOptValFrom(_, _)
getOptValFrom(nodes, opt) ==
    IF nodes = <<>> THEN <<>>
    ELSE IF Head(nodes).type = "KV" /\ EqualFold(Head(nodes).Key, opt)
         THEN Head(nodes).Value
         ELSE getOptValFrom(Tail(nodes), opt)

getOptVal(host, opt) == getOptValFrom(host.Nodes, S(opt))

\* NewHost without the fallback of the hostname to the first pattern
NewHostNoFallback(host) ==
    LET name     == IF Len(host.Patterns) > 0 THEN host.Patterns[1] ELSE <<>>
        aliases  == IF Len(host.Patterns) > 1
                    THEN Paren(joinStrings(Tail(host.Patterns)))
                    ELSE <<>>
    IN  Host(name, aliases, getOptVal(host, "user"), getOptVal(host, "hostname"),
             getOptVal(host, "port"), getOptVal(host, "proxycommand"))

\* NewHost
NewHost(host) ==
    LET name     == IF Len(host.Patterns) > 0 THEN host.Patterns[1] ELSE <<>>
        aliases  == IF Len(host.Patterns) > 1
                    THEN Paren(joinStrings(Tail(host.Patterns)))
                    ELSE <<>>
        optHost  == getOptVal(host, "hostname")
        hostname == IF optHost = <<>> /\ Len(host.Patterns) > 0
                    THEN host.Patterns[1]
                    ELSE optHost
    IN  Host(name, aliases, getOptVal(host, "user"), hostname,
             getOptVal(host, "port"), getOptVal(host, "proxycommand"))

----------------------------------------------------------------------------
(* loadSSHConfig: path resolution and opening *)

HomeDir == S("/h")                          \* os.UserHomeDir()
SystemConfig == S("/etc/ssh/ssh_config")

\* filepath.Clean, on the paths of the model: "" is ".", repeated separators
\* collapse, a trailing separator is dropped
RECURSIVE CollapseSlashes(_)
CollapseSlashes(p) ==
    IF Len(p) < 2 THEN p
    ELSE IF p[1] = "/" /\ p[2] = "/" THEN CollapseSlashes(Tail(p))
    ELSE <<p[1]>> \o CollapseSlashes(Tail(p))

Clean(p) ==
    LET c == CollapseSlashes(p)
    IN  IF c = <<>> THEN S(".")
        ELSE IF Len(c) > 1 /\ c[Len(c)] = "/" THEN SubSeq(c, 1, Len(c) - 1)
        ELSE c

\* filepath.Join
Join(a, b) == Clean(a \o S("/") \o b)

\* the name loadSSHConfig opens for `path`
ResolvePath(path, home) ==
    IF HasPrefix(path, S("~/")) THEN Join(home, SubSeq(path, 3, Len(path))) ELSE path

Absent == [kind |-> "absent"]

\* os.Open(filepath.Clean(fp)) followed by ssh_config.Decode
OpenFile(fp) == IF Clean(fp) \in DOMAIN fs THEN fs[Clean(fp)] ELSE Absent

\* the include test of loadSSHConfig on one node
IsIncludeNode(node) == HasPrefix(ToLower(NodeString(node)), S("include "))
IncPath(node) == TrimSpace(CutPrefix(ToLower(NodeString(node)), S("include ")))

IsWildcard(h) == Len(h.Patterns) > 0 /\ h.Patterns[1] = S("*")

----------------------------------------------------------------------------
(* loadSSHConfig / LoadSSHConfig as a machine with an explicit call stack *)

NoErr == [kind |-> "nil", fp |-> <<>>]

\* fmt.Errorf("could not open ssh config file %s: %w", fp, err)
OpenErr(fp) == [kind |-> "open", fp |-> fp]

\* fmt.Errorf("could not decode ssh config file %s: %w", fp, err)
DecodeErr(fp) == [kind |-> "decode", fp |-> fp]

\* the activation record of one loadSSHConfig call after a successful Decode
Frame(path, fp, blocks) ==
    [path |-> path, fp |-> fp, blocks |-> blocks, bi |-> 1, ni |-> 1, hosts |-> <<>>]

\* f.Close(): the most recently opened stream of that name goes away
RECURSIVE CloseFile(_, _)
CloseFile(open, name) ==
    IF open = <<>> THEN <<>>
    ELSE IF open[Len(open)] = name THEN SubSeq(open, 1, Len(open) - 1)
    ELSE Append(CloseFile(SubSeq(open, 1, Len(open) - 1), name), open[Len(open)])

\* only the activation that raised the error closes its stream
CloseInnermostOnly(open, stk) ==
    IF stk = <<>> THEN open ELSE CloseFile(open, Clean(stk[Len(stk)].fp))

\* the deferred Close of every activation of stk, innermost first
RECURSIVE CloseAll(_, _)
CloseAll(open, stk) ==
    IF stk = <<>> THEN open
    ELSE CloseAll(CloseFile(open, Clean(stk[Len(stk)].fp)), SubSeq(stk, 1, Len(stk) - 1))

\* an error of an included or undecodable file that the caller drops: the
\* file counts as empty and loading goes on
FailDroppedByCaller(err, open, stk) ==
    IF stk = <<>>
    THEN /\ loadErr' = err
         /\ phase' = "failed"
         /\ stack' = <<>>
         /\ openFiles' = open
         /\ loaded' = <<>>
         /\ UNCHANGED <<pidx, allSSHHosts>>
    ELSE /\ stack' = stk
         /\ openFiles' = open
         /\ UNCHANGED <<pidx, allSSHHosts, loadErr, phase, loaded>>

\* an error returned by the innermost call: every caller returns it unchanged
\* (`return nil, err`), LoadSSHConfig returns (nil, err); `open` are the streams
\* open when the error is raised
Fail(err, open, stk) ==
    /\ loadErr' = err
    /\ phase' = "failed"
    /\ stack' = <<>>
    /\ openFiles' = CloseAll(open, stk)
    /\ loaded' = <<>>
    /\ UNCHANGED <<pidx, allSSHHosts>>

\* the test that lets a failed os.Open pass: any path that is not found
IsOptionalMissAnyPath(path, kind) == kind = "absent"

\* path == "/etc/ssh/ssh_config" && os.IsNotExist(err)
IsOptionalMiss(path, kind) == path = SystemConfig /\ kind = "absent"

\* one os.Open call: the path loadSSHConfig was given, the name it opened,
\* what came of it, and the Include directive that named it (if any)
OpenRecord(path, fp, kind, named, depth) ==
    [path |-> path, fp |-> fp, kind |-> kind, named |-> named, depth |-> depth]

\* loadSSHConfig(path, home) up to the end of Decode, called with the callers
\* stk; named is the directive of the Include node the call is made for
Enter(path, stk, named) ==
    LET fp == ResolvePath(path, HomeDir)
        f  == OpenFile(fp)
    IN  /\ opens' = Append(opens, OpenRecord(path, fp, f.kind, named, Len(stk)))
        /\ IF f.kind \in {"absent", "denied"}
           THEN IF IsOptionalMiss(path, f.kind)
                THEN \* return nil, nil
                     /\ stack' = stk
                     /\ pidx' = IF stk = <<>> THEN pidx + 1 ELSE pidx
                     /\ UNCHANGED <<allSSHHosts, openFiles, loadErr, phase, loaded>>
                ELSE Fail(OpenErr(fp), openFiles, stk)
           ELSE IF f.kind = "undecodable"
           THEN \* opened, Decode fails, the deferred Close runs
                Fail(DecodeErr(fp), Append(openFiles, Clean(fp)),
                     Append(stk, Frame(path, fp, <<>>)))
           ELSE /\ stack' = Append(stk, Frame(path, fp, f.hosts))
                /\ openFiles' = Append(openFiles, Clean(fp))
                /\ UNCHANGED <<pidx, allSSHHosts, loadErr, phase, loaded>>

\* LoadSSHConfig, for _, p := range paths: the call loadSSHConfig(p, home)
LoadPath ==
    /\ phase = "load"
    /\ stack = <<>>
    /\ pidx <= Len(paths)
    /\ Enter(paths[pidx], <<>>, <<>>)
    /\ UNCHANGED <<fs, paths>>
    /\ UNCHANGED tuiVars

Top == stack[Len(stack)]
SetTop(stk, f) == [stk EXCEPT ![Len(stk)] = f]

\* for _, node := range h.Nodes, inside a block whose first pattern is "*"
ScanNode ==
    /\ phase = "load"
    /\ stack # <<>>
    /\ Top.bi <= Len(Top.blocks)
    /\ IsWildcard(Top.blocks[Top.bi])
    /\ Top.ni <= Len(Top.blocks[Top.bi].Nodes)
    /\ LET node == Top.blocks[Top.bi].Nodes[Top.ni]
           stk  == SetTop(stack, [Top EXCEPT !.ni = @ + 1])
       IN  IF IsIncludeNode(node)
           THEN /\ Len(stack) < MaxDepth
                /\ Enter(IncPath(node), stk,
                         IF node.type = "Include" THEN node.directives ELSE <<>>)
           ELSE /\ stack' = stk
                /\ UNCHANGED <<pidx, allSSHHosts, openFiles, opens, loadErr,
                               phase, loaded>>
    /\ UNCHANGED <<fs, paths>>
    /\ UNCHANGED tuiVars

\* the skip test without its wildcard half
KeepBlockWithPatterns(h) == Len(h.Patterns) # 0

\* the end of one iteration of `for _, h := range cfg.Hosts`
KeepBlock(h) == ~(Len(h.Patterns) = 0 \/ h.Patterns[1] = S("*"))

NextBlock ==
    /\ phase = "load"
    /\ stack # <<>>
    /\ Top.bi <= Len(Top.blocks)
    /\ LET h == Top.blocks[Top.bi]
       IN  /\ IsWildcard(h) => Top.ni > Len(h.Nodes)
           /\ stack' = SetTop(stack,
                  [Top EXCEPT !.bi = @ + 1, !.ni = 1,
                              !.hosts = IF KeepBlock(h) THEN Append(@, h) ELSE @])
    /\ UNCHANGED <<fs, paths, pidx, allSSHHosts, openFiles, opens, loadErr,
                   phase, loaded>>
    /\ UNCHANGED tuiVars

\* return hosts, nil: the deferred Close runs, the caller appends the hosts
Return ==
    /\ phase = "load"
    /\ stack # <<>>
    /\ Top.bi > Len(Top.blocks)
    /\ LET rest == SubSeq(stack, 1, Len(stack) - 1)
       IN  /\ openFiles' = CloseFile(openFiles, Clean(Top.fp))
           /\ IF rest = <<>>
              THEN /\ allSSHHosts' = allSSHHosts \o Top.hosts
                   /\ pidx' = pidx + 1
                   /\ stack' = <<>>
              ELSE /\ stack' = SetTop(rest,
                          [rest[Len(rest)] EXCEPT !.hosts = @ \o Top.hosts])
                   /\ UNCHANGED <<allSSHHosts, pidx>>
    /\ UNCHANGED <<fs, paths, opens, loadErr, phase, loaded>>
    /\ UNCHANGED tuiVars

----------------------------------------------------------------------------
(* LoadSSHConfig: normalisation and grouping *)

\* for _, h := range allSSHHosts { allHosts = append(allHosts, NewHost(h)) }
AllHosts(blocks) == [i \in 1..Len(blocks) |-> NewHost(blocks[i])]

\* groupedHosts[h.Hostname]: the hosts of that hostname, in the order of allHosts
RECURSIVE GroupOf(_, _)
GroupOf(all, hostname) ==
    IF all = <<>> THEN <<>>
    ELSE IF Head(all).Hostname = hostname
         THEN <<Head(all)>> \o GroupOf(Tail(all), hostname)
         ELSE GroupOf(Tail(all), hostname)

\* the keys of groupedHosts
GroupKeys(all) == {all[i].Hostname : i \in 1..Len(all)}

RECURSIVE NamesOf(_)
NamesOf(group) ==
    IF group = <<>> THEN <<>> ELSE <<Head(group).Name>> \o NamesOf(Tail(group))

RECURSIVE ExistingAliases(_)
ExistingAliases(group) ==
    IF group = <<>> THEN <<>>
    ELSE (IF Head(group).Aliases # <<>> THEN <<Head(group).Aliases>> ELSE <<>>)
             \o ExistingAliases(Tail(group))

\* the merge that keeps the primary as it was parsed
MergeGroupKeepsPrimary(group) == group[1]

\* the merge without `also add any existing aliases`
MergeGroupNamesOnly(group) ==
    IF Len(group) = 1 THEN group[1]
    ELSE [group[1] EXCEPT !.Aliases = Paren(joinStrings(NamesOf(Tail(group))))]

\* the body of `for _, group := range groupedHosts` for a group of one or more
MergeGroup(group) ==
    IF Len(group) = 1 THEN group[1]
    ELSE LET primary == group[1]
             aliases == NamesOf(Tail(group)) \o ExistingAliases(group)
         IN  [primary EXCEPT !.Aliases = Paren(joinStrings(aliases))]

\* the orders in which `range groupedHosts` may visit the keys: Go leaves the
\* iteration order of a map unspecified and randomises it
MapOrders(keys) ==
    {o \in [1..Cardinality(keys) -> keys] : \A i, j \in DOMAIN o : i # j => o[i] # o[j]}

\* LoadSSHConfig after the loop over paths: NewHost, grouping, return hosts, nil
Group ==
    /\ phase = "load"
    /\ stack = <<>>
    /\ pidx > Len(paths)
    /\ LET all == AllHosts(allSSHHosts)
       IN  \E order \in MapOrders(GroupKeys(all)) :
               loaded' = [i \in DOMAIN order |-> MergeGroup(GroupOf(all, order[i]))]
    /\ phase' = "loaded"
    /\ UNCHANGED <<fs, paths, pidx, stack, allSSHHosts, openFiles, opens,
                   loadErr>>
    /\ UNCHANGED tuiVars

----------------------------------------------------------------------------
(* The inputs: configuration files as ssh_config.Decode returns them.      *)
(* Decode puts the directives written before the first Host line into an  *)
(* implicit leading block whose only pattern is "*".                       *)

Implicit(nodes) == Block(<<S("*")>>, nodes)

Web1 == Block(<<S("web1")>>, <<KV("Hostname", "10.5", 2)>>)
Web2 == Block(<<S("web2")>>, <<KV("HostName", "10.5", 2), KV("User", "u", 2)>>)
Db1  == Block(<<S("db1")>>, <<KV("Hostname", "10.9", 2), KV("hostname", "10.5", 2)>>)
App  == Block(<<S("app"), S("api")>>, <<KV("Port", "22", 2)>>)
Api  == Block(<<S("web1"), S("w")>>, <<KV("Hostname", "10.9", 2)>>)
NoPatterns == Block(<<>>, <<KV("Hostname", "10.9", 2)>>)
StarInclude  == Block(<<S("*")>>, <<KV("User", "u", 2), IncludeNode("inc", 0)>>)
StarIndented == Block(<<S("*")>>, <<IncludeNode("inc", 2)>>)
StarSub      == Block(<<S("*")>>, <<IncludeNode("sub", 0)>>)

ExplicitBlocks == {Web1, Web2, Db1, Api, NoPatterns, StarInclude, StarIndented}

\* `Include ~/c` in the file ~/c names the including file itself
TopLevelNodes ==
    {<<>>, <<IncludeNode("inc", 0)>>, <<IncludeNode("Inc", 0)>>,
     <<IncludeNode("~/c", 0)>>}

RECURSIVE SeqsUpTo(_, _)
SeqsUpTo(set, n) ==
    IF n = 0 THEN {<<>>}
    ELSE LET shorter == SeqsUpTo(set, n - 1)
         IN  shorter \cup {Append(q, x) : q \in shorter, x \in set}

Decoded(blocks) == [kind |-> "ok", hosts |-> blocks]
Undecodable == [kind |-> "undecodable"]
Denied == [kind |-> "denied"]

MainPath == S("~/c")
MainFile == S("/h/c")

LowerIncFiles == {Absent, Undecodable, Decoded(<<Implicit(<<>>), Web2, StarSub, Db1>>)}
UpperIncFiles == {Absent, Decoded(<<Implicit(<<>>), Db1>>)}
SystemFiles   == {Absent, Denied, Decoded(<<Implicit(<<>>), Web1>>)}
SubFile       == Decoded(<<Implicit(<<>>), App>>)

FileNames == {MainFile, S("inc"), S("Inc"), S("sub"), SystemConfig}

FileSystem(main, o) ==
    [n \in FileNames |->
        CASE n = MainFile     -> main
          [] n = S("inc")     -> o.lower
          [] n = S("Inc")     -> o.upper
          [] n = S("sub")     -> SubFile
          [] n = SystemConfig -> o.system]

\* the inputs of the ingestion pipeline
MainFiles ==
    {Decoded(<<Implicit(top)>> \o bs) :
        top \in TopLevelNodes, bs \in SeqsUpTo(ExplicitBlocks, MaxBlocks)}

\* the argument of LoadSSHConfig with what the other files hold
LoadCases ==
    {[paths |-> <<MainPath>>, lower |-> l, upper |-> u, system |-> Absent] :
        l \in LowerIncFiles, u \in UpperIncFiles}
    \cup
    {[paths |-> <<SystemConfig, MainPath>>, lower |-> Decoded(<<Implicit(<<>>), Db1>>),
      upper |-> Absent, system |-> y] : y \in SystemFiles}
    \cup
    {[paths |-> <<MainPath, S("inc")>>, lower |-> l, upper |-> Absent,
      system |-> Absent] : l \in LowerIncFiles}

\* the inputs of a whole run of the program: the path of --ssh-config names
\* a file of host blocks
SelectableBlocks == {Web1, Web2, Api}
RunTopLevelNodes == {<<>>, <<KV("User", "u", 0), IncludeNode("inc", 0)>>}

RunFileSystems ==
    {FileSystem(Decoded(<<Implicit(top)>> \o bs),
                [lower |-> Decoded(<<Implicit(<<>>), Db1>>), upper |-> Absent,
                 system |-> Absent]) :
        top \in RunTopLevelNodes, bs \in SeqsUpTo(SelectableBlocks, MaxBlocks)}

Start ==
    /\ phase = "load"
    /\ pidx = 1
    /\ stack = <<>>
    /\ allSSHHosts = <<>>
    /\ openFiles = <<>>
    /\ opens = <<>>
    /\ loadErr = NoErr
    /\ loaded = <<>>
    /\ hosts = <<>>
    /\ filteredHosts = <<>>
    /\ textInput = <<>>
    /\ rows = <<>>
    /\ cursor = 0
    /\ quitting = FALSE
    /\ width = 0
    /\ height = 0
    /\ selectedHost = 0
    /\ lastMsg = "none"
    /\ prevInput = <<>>
    /\ columns = <<0, 0, 0, 0, 0>>
    /\ tableHeight = 0
    /\ inputWidth = 0
    /\ loop = FALSE
    /\ sshHost = 0
    /\ ran = <<>>
    /\ runResult = [err |-> "nil", wrapped |-> FALSE]

\* LoadSSHConfig(paths) on any of the file systems
LoadInit ==
    /\ \E m \in MainFiles, c \in LoadCases :
           /\ fs = FileSystem(m, c)
           /\ paths = c.paths
    /\ Start

\* pssh --ssh-config ~/c
Init ==
    /\ fs \in RunFileSystems
    /\ paths = <<MainPath>>
    /\ Start

----------------------------------------------------------------------------
(* github.com/sahilm/fuzzy, as filterHosts uses it: fuzzy.Find(pattern, data) *)

firstCharMatchBonus == 10
matchFollowingSeparatorBonus == 20
camelCaseMatchBonus == 20
adjacentMatchBonus == 5
unmatchedLeadingCharPenalty == -5
maxUnmatchedLeadingCharPenalty == -15

IsUpper(c) == c \in UpperSet
IsLower(c) == c \in LowerSet
IsSeparator(c) == c \in {"/", "-", "_", " ", ".", "\\"}

\* equalFold on runes; "" stands for the zero rune
EqualFoldRune(a, b) == LowerChar(a) = LowerChar(b)

adjacentCharBonus(i, lastMatch, currentBonus) ==
    IF lastMatch = i THEN currentBonus * 2 + adjacentMatchBonus ELSE 0

\* the state of the scan of one candidate string; indexes are 1-based,
\* matchedIndex 0 is "none yet"
FuzzyStart ==
    [Score |-> 0, patternIndex |-> 1, bestScore |-> -1, matchedIndex |-> 0,
     currAdjacentMatchBonus |-> 0, last |-> "", lastIndex |-> 0,
     MatchedIndexes |-> <<>>]

\* one iteration of the loop over the characters of the candidate
FuzzyStep(st, str, runes, j) ==
    LET candidate == str[j]
        matches   == /\ st.patternIndex <= Len(runes)
                     /\ EqualFoldRune(candidate, runes[st.patternIndex])
        bonus     == IF matches /\ st.MatchedIndexes # <<>>
                     THEN adjacentCharBonus(st.lastIndex,
                              st.MatchedIndexes[Len(st.MatchedIndexes)],
                              st.currAdjacentMatchBonus)
                     ELSE 0
        score     == (IF j = 1 THEN firstCharMatchBonus ELSE 0)
                     + (IF IsLower(st.last) /\ IsUpper(candidate)
                        THEN camelCaseMatchBonus ELSE 0)
                     + (IF j # 1 /\ IsSeparator(st.last)
                        THEN matchFollowingSeparatorBonus ELSE 0)
                     + bonus
        better    == matches /\ score > st.bestScore
        best      == IF better THEN score ELSE st.bestScore
        mi        == IF better THEN j ELSE st.matchedIndex
        nextp     == IF st.patternIndex < Len(runes) THEN runes[st.patternIndex + 1] ELSE ""
        nextc     == IF j < Len(str) THEN str[j + 1] ELSE ""
        apply     == (EqualFoldRune(nextp, nextc) \/ nextc = "") /\ mi > 0
        leading   == IF st.MatchedIndexes = <<>>
                     THEN Max2((mi - 1) * unmatchedLeadingCharPenalty,
                               maxUnmatchedLeadingCharPenalty)
                     ELSE 0
    IN  [Score          |-> IF apply THEN st.Score + best + leading ELSE st.Score,
         patternIndex   |-> IF apply THEN st.patternIndex + 1 ELSE st.patternIndex,
         bestScore      |-> IF apply THEN -1 ELSE best,
         matchedIndex   |-> mi,
         currAdjacentMatchBonus |-> st.currAdjacentMatchBonus + bonus,
         last           |-> candidate,
         lastIndex      |-> j,
         MatchedIndexes |-> IF apply THEN Append(st.MatchedIndexes, mi)
                            ELSE st.MatchedIndexes]

RECURSIVE FuzzyScan(_, _, _, _)
FuzzyScan(st, str, runes, j) ==
    IF j > Len(str) THEN st
    ELSE \* the bound variable holds the computed state of the scan
         CHOOSE result \in {FuzzyScan(next, str, runes, j + 1) :
                               next \in {FuzzyStep(st, str, runes, j)}} : TRUE

\* the match of one candidate: whether all of the pattern was found, and its score
FuzzyMatch(runes, str) ==
    LET st == FuzzyScan(FuzzyStart, str, runes, 1)
    IN  [found |-> Len(st.MatchedIndexes) = Len(runes),
         Score |-> st.Score + (Len(st.MatchedIndexes) - Len(str))]

\* Matches.Less
MatchLess(a, b) == a.Score >= b.Score

\* sort.Stable on fewer than 20 elements is one insertion sort: the new
\* element moves left while Less(new, left neighbour) holds
RECURSIVE InsertMatch(_, _)
InsertMatch(sorted, m) ==
    IF sorted # <<>> /\ MatchLess(m, sorted[Len(sorted)])
    THEN Append(InsertMatch(SubSeq(sorted, 1, Len(sorted) - 1), m), sorted[Len(sorted)])
    ELSE Append(sorted, m)

RECURSIVE SortMatches(_, _)
SortMatches(sorted, rest) ==
    IF rest = <<>> THEN sorted ELSE SortMatches(InsertMatch(sorted, Head(rest)), Tail(rest))

RECURSIVE MatchesFrom(_, _, _)
MatchesFrom(runes, targets, i) ==
    IF i > Len(targets) THEN <<>>
    ELSE LET m == FuzzyMatch(runes, targets[i])
         IN  (IF m.found THEN <<[Index |-> i, Score |-> m.Score]>> ELSE <<>>)
                 \o MatchesFrom(runes, targets, i + 1)

\* fuzzy.Find
Find(pattern, targets) ==
    IF pattern = <<>> THEN <<>> ELSE SortMatches(<<>>, MatchesFrom(pattern, targets, 1))

----------------------------------------------------------------------------
(* package tui: the Model *)

\* the search target without the aliases
TargetWithoutAliases(host) ==
    host.Name \o S(" ") \o host.User \o S(" ") \o host.Hostname \o S(" ")
        \o host.Port

\* fmt.Sprintf("%s %s %s %s %s", Name, Aliases, User, Hostname, Port)
Target(host) ==
    host.Name \o S(" ") \o host.Aliases \o S(" ") \o host.User \o S(" ")
        \o host.Hostname \o S(" ") \o host.Port

\* filterHosts without its early return for the empty search term
FilterHostsNoEarlyReturn(searchTerm, all) ==
    LET ranks == Find(searchTerm, [i \in 1..Len(all) |-> Target(all[i])])
    IN  [r \in 1..Len(ranks) |-> ranks[r].Index]

\* filterHosts whose early return empties the view instead of restoring it
FilterHostsBlankGivesNone(searchTerm, all) ==
    IF searchTerm = <<>> THEN <<>>
    ELSE LET ranks == Find(searchTerm, [i \in 1..Len(all) |-> Target(all[i])])
         IN  [r \in 1..Len(ranks) |-> ranks[r].Index]

\* filterHosts: m.filteredHosts for the search term and the full collection
FilterHosts(searchTerm, all) ==
    IF searchTerm = <<>> THEN [i \in 1..Len(all) |-> i]
    ELSE LET ranks == Find(searchTerm, [i \in 1..Len(all) |-> Target(all[i])])
         IN  [r \in 1..Len(ranks) |-> ranks[r].Index]

\* filterHosts as Update and initialModel call it
filterHosts(searchTerm) == FilterHosts(searchTerm, hosts)

\* hostsToRows, on the hosts the indexes stand for
hostsToRows(idx, all) ==
    [r \in 1..Len(idx) |->
        <<all[idx[r]].Name, all[idx[r]].Aliases, all[idx[r]].User,
          all[idx[r]].Hostname, all[idx[r]].Port>>]

\* bubbles/table
clamp(v, low, high) == Min2(Max2(v, low), high)

\* table.Model cursors are 0-based, -1 when clamped against an empty table
MoveUp(c, n, nrows)   == clamp(c - n, 0, nrows - 1)
MoveDown(c, n, nrows) == clamp(c + n, 0, nrows - 1)
GotoTop(c, nrows)     == MoveUp(c, c, nrows)
SetRowsCursor(c, nrows) == IF c > nrows - 1 THEN nrows - 1 ELSE c

\* table.SelectedRow: <<>> is nil
SelectedRow(rs, c) == IF c < 0 \/ c >= Len(rs) THEN <<>> ELSE rs[c + 1]

\* table.Update(msg) for a key: the cursor after the table's own key bindings
\* (none of TypedKeys is bound by the table's KeyMap)
TableUpdate(key, c, nrows) ==
    CASE key = "up"   -> MoveUp(c, 1, nrows)
      [] key = "down" -> MoveDown(c, 1, nrows)
      [] OTHER        -> c

\* textinput.Update(msg) for a key, the text cursor at the end of the value
CharLimit == 200
TextUpdate(key, value) ==
    CASE key = "backspace" ->
             IF value = <<>> THEN value ELSE SubSeq(value, 1, Len(value) - 1)
      [] key \in {"up", "down", "esc", "ctrl+c", "enter"} -> value
      [] OTHER -> IF Len(value) < CharLimit THEN Append(value, key) ELSE value

TypedKeys == {"w", "z"}
Keys == TypedKeys \cup {"backspace", "up", "down", "esc", "ctrl+c", "enter"}
WindowSizes == {<<120, 30>>}

\* the first host of the filtered view whose Name is the selected row's first
\* cell; 0 when there is none
RECURSIVE FindByName(_, _, _)
FindByName(idx, all, name) ==
    IF idx = <<>> THEN 0
    ELSE IF all[Head(idx)].Name = name THEN Head(idx)
    ELSE FindByName(Tail(idx), all, name)

\* int(float64(width) * 0.01 * pct), for the widths and factors of the model
Percent(w, pct) == (w * pct) \div 100

\* setTableSize(w) with m.height = h: the column widths, the table height
\* and the width of the text input
setTableSize(w, h) ==
    /\ columns' = <<Percent(w, 25), Percent(w, 20), Percent(w, 10),
                    Percent(w, 35), Percent(w, 8)>>
    /\ tableHeight' = h - 5
    /\ inputWidth' = w - 4

\* initialModel, called by SelectHost with the one path of --ssh-config
initialModel ==
    /\ phase = "loaded"
    /\ Len(paths) = 1
    /\ phase' = "tui"
    /\ hosts' = loaded
    /\ height' = 20
    /\ width' = 0
    /\ textInput' = <<>>
    /\ rows' = hostsToRows([i \in 1..Len(loaded) |-> i], loaded)
    /\ cursor' = SetRowsCursor(0, Len(loaded))
    /\ filteredHosts' = FilterHosts(<<>>, loaded)
    /\ quitting' = FALSE
    /\ selectedHost' = 0
    /\ setTableSize(100, 20)
    /\ UNCHANGED <<lastMsg, prevInput>>
    /\ UNCHANGED runVars
    /\ UNCHANGED loadVars

\* a WindowSizeMsg handler that also starts the search over
UpdateWindowSizeClearsQuery ==
    /\ phase = "tui"
    /\ \E size \in WindowSizes :
           /\ width' = size[1]
           /\ height' = size[2]
           /\ setTableSize(size[1], size[2])
    /\ lastMsg' = "resize"
    /\ prevInput' = textInput
    /\ textInput' = <<>>
    /\ filteredHosts' = [i \in 1..Len(hosts) |-> i]
    /\ UNCHANGED <<phase, hosts, rows, cursor, quitting, selectedHost>>
    /\ UNCHANGED runVars
    /\ UNCHANGED loadVars

\* Update, case tea.WindowSizeMsg
UpdateWindowSize ==
    /\ phase = "tui"
    /\ \E size \in WindowSizes :
           /\ width' = size[1]
           /\ height' = size[2]
           /\ setTableSize(size[1], size[2])
    /\ lastMsg' = "resize"
    /\ prevInput' = textInput
    /\ UNCHANGED <<phase, hosts, filteredHosts, textInput, rows, cursor,
                   quitting, selectedHost>>
    /\ UNCHANGED runVars
    /\ UNCHANGED loadVars

\* Update, case tea.KeyMsg, lines 88-99: the text input and the table both
\* get the key, the view is recomputed when the value changed
HandleInput(key, value, c, filtered, rs) ==
    LET oldSearch == value
        newValue  == TextUpdate(key, value)
        c1        == TableUpdate(key, c, Len(rs))
    IN  IF newValue # oldSearch
        THEN LET f == filterHosts(newValue)
             IN  /\ textInput' = newValue
                 /\ filteredHosts' = f
                 /\ rows' = hostsToRows(f, hosts)
                 /\ cursor' = GotoTop(SetRowsCursor(c1, Len(f)), Len(f))
        ELSE /\ textInput' = newValue
             /\ filteredHosts' = filtered
             /\ rows' = rs
             /\ cursor' = c1

\* the cancel branch without its `return m, tea.Quit`
CancelWithoutQuit ==
    /\ quitting' = TRUE
    /\ UNCHANGED <<phase, filteredHosts, textInput, rows, cursor, selectedHost>>

\* Update, case "esc", "ctrl+c" with an empty value: m.quitting = true;
\* return m, tea.Quit
CancelQuit ==
    /\ quitting' = TRUE
    /\ phase' = "quit"
    /\ UNCHANGED <<filteredHosts, textInput, rows, cursor, selectedHost>>

\* Update, case "enter": the host named by the selected row, then
\* return m, tea.Quit
Confirm ==
    LET selectedRow == SelectedRow(rows, cursor)
    IN  /\ selectedHost' =
               IF Len(selectedRow) > 0
               THEN LET h == FindByName(filteredHosts, hosts, selectedRow[1])
                    IN  IF h # 0 THEN h ELSE selectedHost
               ELSE selectedHost
        /\ phase' = "quit"
        /\ UNCHANGED <<filteredHosts, textInput, rows, cursor, quitting>>

\* Update, case tea.KeyMsg
UpdateKey(key) ==
    /\ phase = "tui"
    /\ lastMsg' = key
    /\ prevInput' = textInput
    /\ IF key \in {"esc", "ctrl+c"}
       THEN IF textInput # <<>>
            THEN \* the value is cleared, then control falls through to line 88
                 LET f == filterHosts(<<>>)
                 IN  /\ HandleInput(key, <<>>, SetRowsCursor(cursor, Len(f)),
                                    f, hostsToRows(f, hosts))
                     /\ UNCHANGED <<phase, quitting, selectedHost>>
            ELSE CancelQuit
       ELSE IF key = "enter"
       THEN Confirm
       ELSE /\ Len(TextUpdate(key, textInput)) <= MaxQuery
            /\ HandleInput(key, textInput, cursor, filteredHosts, rows)
            /\ UNCHANGED <<phase, quitting, selectedHost>>
    /\ UNCHANGED <<hosts, width, height>>
    /\ UNCHANGED layoutVars
    /\ UNCHANGED runVars
    /\ UNCHANGED loadVars

Update ==
    \/ UpdateWindowSize
    \/ \E key \in Keys : UpdateKey(key)

----------------------------------------------------------------------------
(* package main: RunTui and runSSH *)

MaxAttempts == 3    \* connection attempts of one run

\* what cmd.Run() returns: nil, an *exec.ExitError, or another error
RunErrors == {"nil", "exit", "other"}

\* an error as returned, and wrapped by fmt.Errorf("...: %w", err)
Returned(err) == [err |-> err, wrapped |-> FALSE]
Wrapped(err)  == [err |-> err, wrapped |-> TRUE]

\* SelectHost hands out the highlighted host when none was selected
SelectHostOrHighlighted ==
    IF selectedHost # 0 THEN selectedHost
    ELSE IF filteredHosts # <<>> THEN filteredHosts[1]
    ELSE 0

\* SelectHost: return final.(Model).selectedHost
SelectHost == selectedHost

\* strings.Fields, on a line whose only white space is the space character
RECURSIVE Fields(_)
Fields(line) ==
    IF line = <<>> THEN <<>>
    ELSE IF Head(line) = " " THEN Fields(Tail(line))
    ELSE LET n == IF \E i \in 1..Len(line) : line[i] = " "
                  THEN (CHOOSE i \in 1..Len(line) :
                            /\ line[i] = " "
                            /\ \A k \in 1..(i - 1) : line[k] # " ") - 1
                  ELSE Len(line)
         IN  <<SubSeq(line, 1, n)>> \o Fields(SubSeq(line, n + 1, Len(line)))

\* RunCmdTmpl("ssh {{.Name}}"): the words of the command line
CommandLine(host) == Fields(S("ssh ") \o host.Name)

\* errors.As(err, &exitErr) for every error at all
IsAnyError(err) == err # "nil"

\* errors.As(err, &exitErr)
IsExitError(err) == err = "exit"

\* RunTui up to the call of runSSH
RunTui ==
    /\ phase = "quit"
    /\ loop' \in BOOLEAN
    /\ sshHost' = SelectHost
    /\ IF SelectHost # 0
       THEN /\ phase' = "ssh"
            /\ UNCHANGED runResult
       ELSE /\ phase' = "done"
            /\ runResult' = Returned("nil")
    /\ UNCHANGED ran
    /\ UNCHANGED <<hosts, filteredHosts, textInput, rows, cursor, quitting,
                   width, height, selectedHost, lastMsg, prevInput>>
    /\ UNCHANGED layoutVars
    /\ UNCHANGED loadVars

\* runSSH: one host.RunCmdTmpl(tmpl) and what runSSH does with its error
RunCmdTmpl ==
    /\ phase = "ssh"
    /\ Len(ran) < MaxAttempts
    /\ \E err \in RunErrors :
           /\ ran' = Append(ran, [argv |-> CommandLine(hosts[sshHost]), err |-> err])
           /\ IF ~loop
              THEN /\ runResult' = Returned(err)
                   /\ phase' = "done"
              ELSE IF err = "nil"
              THEN /\ runResult' = Returned("nil")
                   /\ phase' = "done"
              ELSE IF IsExitError(err)
              THEN \* time.Sleep(2 * time.Second); continue
                   UNCHANGED <<runResult, phase>>
              ELSE /\ runResult' = Wrapped(err)
                   /\ phase' = "done"
    /\ UNCHANGED <<loop, sshHost>>
    /\ UNCHANGED <<hosts, filteredHosts, textInput, rows, cursor, quitting,
                   width, height, selectedHost, lastMsg, prevInput>>
    /\ UNCHANGED layoutVars
    /\ UNCHANGED loadVars

Next ==
    \/ LoadPath
    \/ ScanNode
    \/ NextBlock
    \/ Return
    \/ Group
    \/ initialModel
    \/ Update
    \/ RunTui
    \/ RunCmdTmpl

Spec == Init /\ [][Next]_vars

\* LoadSSHConfig alone, on the wider inputs
LoadNext ==
    \/ LoadPath
    \/ ScanNode
    \/ NextBlock
    \/ Return
    \/ Group

LoadSpec == LoadInit /\ [][LoadNext]_vars

----------------------------------------------------------------------------
(* Properties of the selection controller *)

CancelKeys == {"esc", "ctrl+c"}

\* Update has returned tea.Quit: the controller is in a terminal state
Terminated == phase \in {"quit", "ssh", "done"}

\* the indexes of the whole collection, in order
WholeCollection == [i \in 1..Len(hosts) |-> i]

\* the table row that shows host h
RowOf(h) == <<h.Name, h.Aliases, h.User, h.Hostname, h.Port>>

\* the displayed rows are the rows of the filtered view, in order
RowsShowFilteredView ==
    /\ Len(rows) = Len(filteredHosts)
    /\ \A r \in 1..Len(rows) : rows[r] = RowOf(hosts[filteredHosts[r]])

\* C1: a confirm (enter) received in Filtering while the filtered view is
\* empty is a no-op: the controller does not terminate, keeps its query and
\* produces no result.
C1_ConfirmOnEmptyViewIsNoOp ==
    (lastMsg = "enter" /\ prevInput # <<>> /\ filteredHosts = <<>>)
        => (phase = "tui" /\ textInput = prevInput /\ selectedHost = 0)

\* C2: a confirm (enter) received while the filtered view is not empty
\* terminates the controller with a Host of the filtered view whose name is
\* the name shown in the cursor's row.
C2_ConfirmCommitsShownHost ==
    (lastMsg = "enter" /\ filteredHosts # <<>>)
        => /\ Terminated
           /\ selectedHost # 0
           /\ \E r \in 1..Len(filteredHosts) : filteredHosts[r] = selectedHost
           /\ cursor \in 0..(Len(rows) - 1)
           /\ hosts[selectedHost].Name = rows[cursor + 1][1]

\* C3: a cancel key received while the query is not empty clears the query,
\* makes the filtered view and the rows the whole collection in its original
\* order, and neither terminates the controller nor selects a Host.
C3_CancelClearsQuery ==
    (lastMsg \in CancelKeys /\ prevInput # <<>>)
        => /\ textInput = <<>>
           /\ filteredHosts = WholeCollection
           /\ Len(rows) = Len(hosts)
           /\ \A i \in 1..Len(hosts) : rows[i] = RowOf(hosts[i])
           /\ phase = "tui"
           /\ ~quitting
           /\ selectedHost = 0

C3_Witness ==
    /\ lastMsg \in CancelKeys
    /\ prevInput # <<>>
    /\ phase = "tui"
    /\ Len(hosts) >= 2

\* C4: a cancel key received while the query is empty terminates the
\* controller in Cancelled, with no Host produced.
C4_CancelOnEmptyQueryQuits ==
    (lastMsg \in CancelKeys /\ prevInput = <<>>)
        => /\ Terminated
           /\ quitting
           /\ selectedHost = 0

C4_Witness ==
    /\ lastMsg = "esc"
    /\ prevInput = <<>>
    /\ phase = "quit"
    /\ quitting
    /\ width = 120
    /\ Len(hosts) >= 2

\* C5: after every key event that changes the query the filtered view is the
\* Fuzzy Filter of the whole collection for the new query, the rows are the
\* rows of that view in the same order, and the cursor is at the top row.
C5_QueryChangeRefiltersAndResetsCursor ==
    (phase = "tui" /\ lastMsg \in Keys /\ textInput # prevInput)
        => /\ filteredHosts = FilterHosts(textInput, hosts)
           /\ RowsShowFilteredView
           /\ (rows # <<>> => cursor = 0)

----------------------------------------------------------------------------
(* Properties of the ingestion pipeline *)

\* the provisional Hosts, in discovery order
Provisional == AllHosts(allSSHHosts)

Hostnames == {Provisional[i].Hostname : i \in 1..Len(Provisional)}

\* the provisional Hosts of one effective hostname, in discovery order
Members(hostname) == SelectSeq(Provisional, LAMBDA h : h.Hostname = hostname)

\* the position at which a hostname is first discovered
FirstDiscovery(hostname) ==
    CHOOSE i \in 1..Len(Provisional) :
        /\ Provisional[i].Hostname = hostname
        /\ \A j \in 1..(i - 1) : Provisional[j].Hostname # hostname

\* C6: the final collection has one entry per hostname group, in the order in
\* which the groups were first discovered.
C6_FirstDiscoveryOrder ==
    phase = "loaded"
        => /\ Len(loaded) = Cardinality(Hostnames)
           /\ \A i \in 1..Len(loaded) : loaded[i].Hostname \in Hostnames
           /\ \A i, j \in 1..Len(loaded) :
                  i < j => FirstDiscovery(loaded[i].Hostname)
                               < FirstDiscovery(loaded[j].Hostname)

\* "a, b, c"
RECURSIVE CommaList(_)
CommaList(ss) ==
    IF Len(ss) = 0 THEN <<>>
    ELSE IF Len(ss) = 1 THEN ss[1]
    ELSE CommaList(SubSeq(ss, 1, Len(ss) - 1)) \o <<",", " ">> \o ss[Len(ss)]

\* the aliases the merge rule gives the primary of a group of several
MergedAliases(group) ==
    LET others   == [i \in 1..(Len(group) - 1) |-> group[i + 1].Name]
        existing == SelectSeq([i \in 1..Len(group) |-> group[i].Aliases],
                              LAMBDA a : Len(a) > 0)
    IN  <<"(">> \o CommaList(others \o existing) \o <<")">>

\* C7: of every group only the first-discovered member survives; in a group
\* of several its aliases are "(" the other members' names, then every
\* member's own non-empty aliases, comma-joined ")"; a group of one passes
\* through unchanged.
C7_GroupMerge ==
    phase = "loaded"
        => \A hostname \in Hostnames :
               LET group == Members(hostname)
                   out   == SelectSeq(loaded, LAMBDA h : h.Hostname = hostname)
               IN  /\ Len(out) = 1
                   /\ out[1].Name = group[1].Name
                   /\ out[1].User = group[1].User
                   /\ out[1].Port = group[1].Port
                   /\ out[1].ProxyCommand = group[1].ProxyCommand
                   /\ Len(group) = 1 => out[1] = group[1]
                   /\ Len(group) > 1 => out[1].Aliases = MergedAliases(group)

\* web1 then web2 with the same Hostname give web1 with aliases "(web2)", and
\* a group whose members had aliases of their own has been merged too
C7_Witness ==
    /\ phase = "loaded"
    /\ \E i \in 1..Len(loaded) :
           /\ loaded[i].Name = S("web1")
           /\ loaded[i].Aliases = S("(web2)")
    /\ \E i \in 1..Len(loaded) : loaded[i].Aliases = S("(db1, (w))")

\* C8: no Host of the final collection is named "*".
C8_NoWildcardHost ==
    phase = "loaded" => \A i \in 1..Len(loaded) : loaded[i].Name # <<"*">>

\* a load that met an explicit `Host *` block carrying directives and still
\* produced Hosts
C8_Witness ==
    /\ phase = "loaded"
    /\ loaded # <<>>
    /\ fs[MainFile].kind = "ok"
    /\ \E i \in 2..Len(fs[MainFile].hosts) :
           /\ fs[MainFile].hosts[i].Patterns = <<(<<"*">>)>>
           /\ Len(fs[MainFile].hosts[i].Nodes) > 1

\* the hostname directives of a block, in declaration order
HostnameValues(block) ==
    LET kvs == SelectSeq(block.Nodes,
                   LAMBDA n : n.type = "KV" /\ ToLower(n.Key) = S("hostname"))
    IN  [i \in 1..Len(kvs) |-> kvs[i].Value]

\* the first hostname directive when there is one and it is not empty,
\* otherwise the first pattern
EffectiveHostname(block) ==
    LET values == HostnameValues(block)
    IN  IF Len(values) > 0 /\ Len(values[1]) > 0 THEN values[1] ELSE block.Patterns[1]

\* C9: every Host of the final collection has a non-empty hostname, the
\* first hostname directive of its block or else its name; no block without
\* patterns is materialised.
C9_HostnameNeverEmpty ==
    phase = "loaded"
        => /\ \A i \in 1..Len(allSSHHosts) : Len(allSSHHosts[i].Patterns) > 0
           /\ \A i \in 1..Len(loaded) :
                  /\ Len(loaded[i].Hostname) > 0
                  /\ \E b \in 1..Len(allSSHHosts) :
                         /\ allSSHHosts[b].Patterns[1] = loaded[i].Name
                         /\ EffectiveHostname(allSSHHosts[b]) = loaded[i].Hostname

\* a Host whose block has no hostname directive, one whose block has two, and
\* a file with a block without patterns
C9_Witness ==
    /\ phase = "loaded"
    /\ \E i \in 1..Len(loaded) :
           loaded[i].Name = S("app") /\ loaded[i].Hostname = S("app")
    /\ \E i \in 1..Len(loaded) :
           loaded[i].Name = S("db1") /\ loaded[i].Hostname = S("10.9")
    /\ \E i \in 1..Len(fs[MainFile].hosts) : fs[MainFile].hosts[i].Patterns = <<>>

\* the file a path names
FileAt(path) ==
    LET name == ResolvePath(path, HomeDir)
    IN  IF name \in DOMAIN fs THEN fs[name] ELSE Absent

\* the paths the Include directives of a block name
IncludedPaths(block) ==
    LET incs == SelectSeq(block.Nodes, LAMBDA n : n.type = "Include")
    IN  [i \in 1..Len(incs) |-> incs[i].directives[1]]

\* the non-wildcard blocks of the file at path, every included file's blocks
\* in the place of the wildcard block that includes it
RECURSIVE Spliced(_, _)
RECURSIVE SplicedBlocks(_, _)
RECURSIVE SplicedIncludes(_, _)
Spliced(path, depth) ==
    IF depth = 0 \/ FileAt(path).kind # "ok" THEN <<>>
    ELSE SplicedBlocks(FileAt(path).hosts, depth)
SplicedBlocks(blocks, depth) ==
    IF blocks = <<>> THEN <<>>
    ELSE LET h == Head(blocks)
         IN  (IF Len(h.Patterns) = 0 THEN <<>>
              ELSE IF h.Patterns[1] = <<"*">>
                   THEN SplicedIncludes(IncludedPaths(h), depth)
                   ELSE <<h>>)
                 \o SplicedBlocks(Tail(blocks), depth)
SplicedIncludes(incs, depth) ==
    IF incs = <<>> THEN <<>>
    ELSE Spliced(Head(incs), depth - 1) \o SplicedIncludes(Tail(incs), depth)

RECURSIVE SplicedPaths(_)
SplicedPaths(ps) ==
    IF ps = <<>> THEN <<>> ELSE Spliced(Head(ps), MaxDepth + 1) \o SplicedPaths(Tail(ps))

\* C10: the blocks of a file included from a wildcard block are part of the
\* parsed block sequence, at the position of the including block.
C10_IncludeSplicedInPlace ==
    phase = "loaded" => allSSHHosts = SplicedPaths(paths)

\* an os.Open call whose outcome is an error loadSSHConfig does not tolerate
FatalOpen(o) ==
    \/ o.kind = "undecodable"
    \/ o.kind \in {"absent", "denied"}
           /\ ~(o.path = <<"/", "e", "t", "c", "/", "s", "s", "h", "/",
                           "s", "s", "h", "_", "c", "o", "n", "f", "i", "g">>
                /\ o.kind = "absent")

\* C11: ingestion is all-or-nothing: a fatal failure to open or decode a
\* supplied or included file makes LoadSSHConfig return an error and no Host
\* collection, and no file is opened after the failing one.
C11_AllOrNothing ==
    /\ [](\A i \in 1..Len(opens) :
              FatalOpen(opens[i])
                  => /\ phase = "failed"
                     /\ i = Len(opens)
                     /\ loadErr.kind \in {"open", "decode"}
                     /\ loadErr.fp = opens[i].fp
                     /\ loaded = <<>>)
    /\ [][phase = "failed" => (opens' = opens /\ loaded' = <<>> /\ phase' = "failed")]_vars

\* a load that had collected blocks from the first path when a file included
\* from the second one failed, or that failed in an include with a path left
C11_Witness ==
    /\ phase = "failed"
    /\ loaded = <<>>
    /\ opens[Len(opens)].depth >= 1
    /\ pidx < Len(paths)
    /\ Len(opens) >= 2

\* C12: a failed open is passed over (no hosts, no error, loading goes on)
\* only when the file is not found and the path as given is
\* /etc/ssh/ssh_config; every other failed open fails the load with an error
\* that names the path.
C12_OnlySystemDefaultIsOptional ==
    [][Len(opens') = Len(opens) + 1 =>
          LET o == opens'[Len(opens')]
          IN  o.kind \in {"absent", "denied"} =>
                  IF o.path = SystemConfig /\ o.kind = "absent"
                  THEN /\ phase' = "load"
                       /\ loadErr' = NoErr
                       /\ allSSHHosts' = allSSHHosts
                       /\ Len(stack') = Len(stack)
                       /\ \A k \in 1..Len(stack) : stack'[k].hosts = stack[k].hosts
                       /\ stack = <<>> => pidx' = pidx + 1
                  ELSE /\ phase' = "failed"
                       /\ loadErr'.kind = "open"
                       /\ loadErr'.fp = o.fp
                       /\ ~HasPrefix(o.path, <<"~", "/">>) => o.fp = o.path
                       /\ loaded' = <<>>]_vars

\* the system-wide file is missing, the load went on to the next path and
\* returned its hosts
C12_Witness ==
    /\ phase = "loaded"
    /\ Len(opens) >= 2
    /\ opens[1].path = SystemConfig
    /\ opens[1].kind = "absent"
    /\ loadErr = NoErr
    /\ loaded # <<>>

\* C13: the streams open at any time are those of the calls in progress, and
\* none is open once LoadSSHConfig has returned, with or without an error.
C13_AllStreamsClosed ==
    /\ Len(openFiles) = Len(stack)
    /\ \A i \in 1..Len(stack) : openFiles[i] = Clean(stack[i].fp)
    /\ phase \in {"loaded", "failed", "tui", "quit"} => openFiles = <<>>

\* an included file could not be decoded while the including file, opened
\* before it, was still open
C13_Witness ==
    /\ phase = "failed"
    /\ loadErr.kind = "decode"
    /\ opens[Len(opens)].depth >= 1
    /\ \E i \in 1..Len(opens) : opens[i].kind = "ok" /\ opens[i].depth = 0
    /\ openFiles = <<>>

\* C18: the file opened for an Include directive is the one the directive
\* names, character for character once surrounding blanks are trimmed and a
\* leading ~/ is replaced by the home directory of the including call.
C18_IncludeOpensNamedPath ==
    \A i \in 1..Len(opens) :
        opens[i].named # <<>>
            => LET named == TrimSpace(opens[i].named[1])
               IN  /\ opens[i].path = named
                   /\ opens[i].fp =
                          IF HasPrefix(named, <<"~", "/">>)
                          THEN HomeDir \o <<"/">> \o SubSeq(named, 3, Len(named))
                          ELSE named

\* C20: LoadSSHConfig terminates.  loadSSHConfig(path, home) is a function of
\* its arguments and of the files, and each call is a finite loop over the
\* blocks of one file: the load terminates exactly when no call is made
\* inside a call with the same path, since such a call repeats its caller.
C20_LoadTerminates ==
    \A i, j \in 1..Len(stack) : i < j => stack[i].path # stack[j].path

----------------------------------------------------------------------------
(* Properties of filtering, resizing and the connection command *)

\* the controller exists: the model has been built
ControllerPhases == {"tui", "quit", "ssh", "done"}

\* C14: whenever the query is empty the filtered view is the whole
\* collection, the same elements in the same order.
C14_EmptyQueryIsIdentity ==
    (phase \in ControllerPhases /\ textInput = <<>>)
        => /\ Len(filteredHosts) = Len(hosts)
           /\ \A i \in 1..Len(hosts) : filteredHosts[i] = i

\* the last character of a query was deleted in front of several hosts
C14_Witness ==
    /\ phase = "tui"
    /\ lastMsg = "backspace"
    /\ prevInput # <<>>
    /\ textInput = <<>>
    /\ Len(hosts) >= 2
    /\ Len(filteredHosts) = Len(hosts)

\* name, aliases, user, hostname and port, joined by single spaces
Composite(h) ==
    h.Name \o <<" ">> \o h.Aliases \o <<" ">> \o h.User \o <<" ">>
        \o h.Hostname \o <<" ">> \o h.Port

\* the characters of q occur in t in the same order, letter case aside
RECURSIVE IsSubsequence(_, _)
IsSubsequence(q, t) ==
    IF q = <<>> THEN TRUE
    ELSE IF t = <<>> THEN FALSE
    ELSE IF LowerChar(Head(q)) = LowerChar(Head(t))
         THEN IsSubsequence(Tail(q), Tail(t))
         ELSE IsSubsequence(q, Tail(t))

\* C15: for a non-empty query the filtered view holds exactly the Hosts
\* whose composite string has the query as a subsequence, each of them once.
C15_FilterKeepsExactlyTheMatches ==
    (phase \in ControllerPhases /\ textInput # <<>>)
        => /\ \A r \in 1..Len(filteredHosts) :
                  /\ filteredHosts[r] \in 1..Len(hosts)
                  /\ IsSubsequence(textInput, Composite(hosts[filteredHosts[r]]))
           /\ \A i \in 1..Len(hosts) :
                  IsSubsequence(textInput, Composite(hosts[i]))
                      => \E r \in 1..Len(filteredHosts) : filteredHosts[r] = i
           /\ \A r, q \in 1..Len(filteredHosts) :
                  r # q => filteredHosts[r] # filteredHosts[q]

\* a query of two characters that keeps one host, through its aliases, and
\* drops another
C15_Witness ==
    /\ phase = "tui"
    /\ textInput = <<"w", "w">>
    /\ Len(hosts) >= 2
    /\ Len(filteredHosts) = 1
    /\ hosts[filteredHosts[1]].Aliases # <<>>

\* C16: a resize changes the layout only: the query, the collection, the
\* filtered view, the selected Host and the quitting and terminal status
\* stay as they were.
C16_ResizeChangesLayoutOnly ==
    [][(phase = "tui" /\ lastMsg' = "resize")
          => /\ textInput' = textInput
             /\ hosts' = hosts
             /\ filteredHosts' = filteredHosts
             /\ selectedHost' = selectedHost
             /\ quitting' = quitting
             /\ phase' = phase]_vars

\* a resize arrived while a query was narrowing the view, and the layout is
\* that of the new size
C16_Witness ==
    /\ phase = "tui"
    /\ lastMsg = "resize"
    /\ textInput # <<>>
    /\ Len(filteredHosts) < Len(hosts)
    /\ width = 120
    /\ columns = <<30, 24, 12, 42, 9>>
    /\ tableHeight = 25

\* C17: the connection command is run only after the controller has ended
\* with a Host, and then for that Host; after a cancelled selection no
\* command is run.
C17_CommandRunIffCommitted ==
    /\ phase \notin {"ssh", "done"} => ran = <<>>
    /\ selectedHost = 0 => ran = <<>>
    /\ (phase = "done" /\ selectedHost # 0) => ran # <<>>
    /\ \A i \in 1..Len(ran) :
           ran[i].argv = <<(<<"s", "s", "h">>), hosts[selectedHost].Name>>

\* the run ended after a command for the host db1, chosen among several
C17_Witness ==
    /\ phase = "done"
    /\ selectedHost # 0
    /\ Len(hosts) >= 2
    /\ hosts[selectedHost].Name = <<"d", "b", "1">>
    /\ ran # <<>>

\* C19: in loop mode runSSH runs the command again after every process exit
\* error and returns only after an attempt without error (nil) or with
\* another error (wrapped); without loop mode it runs the command once and
\* returns its error as it is.
C19_LoopRetriesOnExitErrorOnly ==
    /\ phase = "ssh"
           => /\ ran # <<>> => loop
              /\ \A i \in 1..Len(ran) : ran[i].err = "exit"
    /\ (phase = "done" /\ ran # <<>>)
           => LET last == ran[Len(ran)].err
              IN  IF loop
                  THEN /\ last # "exit"
                       /\ \A i \in 1..(Len(ran) - 1) : ran[i].err = "exit"
                       /\ runResult = [err |-> last, wrapped |-> last # "nil"]
                  ELSE /\ Len(ran) = 1
                       /\ runResult = [err |-> last, wrapped |-> FALSE]

\* two failed connections, then one that ended without error
C19_Witness ==
    /\ phase = "done"
    /\ loop
    /\ Len(ran) = 3
    /\ ran[1].err = "exit"
    /\ ran[2].err = "exit"
    /\ ran[3].err = "nil"
    /\ runResult = [err |-> "nil", wrapped |-> FALSE]

----------------------------------------------------------------------------
(* Properties of the committed Host and of the grouped collection *)

\* C21: the Host committed on confirm is the element of the filtered view at
\* the cursor's index, the Host of the highlighted row, also when two Hosts
\* with different hostnames have the same name.
C21_CommitsHostAtCursor ==
    (lastMsg = "enter" /\ cursor \in 0..(Len(filteredHosts) - 1))
        => selectedHost = filteredHosts[cursor + 1]

\* sub occurs in s
Contains(s, sub) ==
    \E i \in 1..(Len(s) - Len(sub) + 1) : SubSeq(s, i, i + Len(sub) - 1) = sub

\* C22: no two Hosts of the final collection have the same hostname, and the
\* name of every parsed non-wildcard block is the name of a final Host or
\* occurs in the aliases of the final Host with the block's effective hostname.
C22_OneHostPerHostnameNoNameLost ==
    phase = "loaded"
        => /\ \A i, j \in 1..Len(loaded) :
                  i # j => loaded[i].Hostname # loaded[j].Hostname
           /\ \A b \in 1..Len(allSSHHosts) :
                  LET name == allSSHHosts[b].Patterns[1]
                  IN  \/ \E i \in 1..Len(loaded) : loaded[i].Name = name
                      \/ \E i \in 1..Len(loaded) :
                             /\ loaded[i].Hostname = EffectiveHostname(allSSHHosts[b])
                             /\ Contains(loaded[i].Aliases, name)

\* blocks in at least two groups, one of them db1, whose name is no final
\* Host's name and lives on in the aliases of the Host of its hostname
C22_Witness ==
    /\ phase = "loaded"
    /\ Len(loaded) >= 2
    /\ Len(allSSHHosts) >= 3
    /\ \E b \in 1..Len(allSSHHosts) :
           /\ allSSHHosts[b].Patterns[1] = <<"d", "b", "1">>
           /\ \A i \in 1..Len(loaded) : loaded[i].Name # <<"d", "b", "1">>

====
